---- MODULE Spec2Model ----
(***************************************************************************)
(* The telemetry collector of openclaw-monitor (src/collector/server.js):  *)
(* the relational store's tables, the ingestion handlers and the fan-out   *)
(* of their envelopes to subscribers, the cost computation of POST         *)
(* /api/llm,                                                               *)
(* the process lifecycle of POST /api/process, the recent-activity query,  *)
(* the agent status singleton and the balance history with its spend       *)
(* analytics.                                                              *)
(*                                                                         *)
(* Conventions.                                                            *)
(*  - Time is one wall clock, now, counted in hours since the collector    *)
(*    started.  new Date(), Date.now() and SQLite's CURRENT_TIMESTAMP all  *)
(*    read it; the handlers that read the clock twice (server.js 543 and   *)
(*    552) run synchronously between the two reads and read it once here.  *)
(*  - A JSON field or SQL column that holds a number or nothing is a       *)
(*    sequence: << >> for undefined / null / NULL / NaN, <<n>> for n.      *)
(*  - A string field that is absent holds Undefined.                       *)
(*  - Money is counted in 1e-9 USD in the cost engine (so that rates per   *)
(*    1K tokens, given in 1e-6 USD, stay integers) and in whole currency   *)
(*    units in the balance history.                                        *)
(*  - req, res and sent hold the request handled by the step just taken    *)
(*    (with, for the balance endpoints, what the collaborator returned),   *)
(*    the HTTP response it wrote and the envelope it broadcast; delivered  *)
(*    holds, per subscriber, the envelopes that step passed to send.       *)
(*  - The store is opened without PRAGMA foreign_keys, and SQLite leaves   *)
(*    foreign keys unenforced unless it is set.                            *)
(*  - client.send of the ws library reports a failed write on an open      *)
(*    socket through events, after broadcast has returned; it does not     *)
(*    throw.                                                               *)
(*  - fs.writeFileSync and fs.readFileSync of the balance history file are *)
(*    taken to succeed.                                                    *)
(***************************************************************************)
EXTENDS Integers, Sequences, FiniteSets, TLC

VARIABLES
  now,           \* the wall clock
  sessions,      \* table sessions, rows in rowid order
  commands,      \* table commands, rows in rowid order
  llm_requests,  \* table llm_requests, rows in rowid order
  processes,     \* table processes, rows in rowid order
  events,        \* table events, rows in rowid order
  clients,       \* wss.clients: per subscriber, its connection
  agentStatus,   \* the agentStatus singleton
  balanceFile,   \* contents of BALANCE_HISTORY_FILE (<< >>: no file yet)
  spendPc,       \* per /api/moonshot/spend request: "idle" or "fetching"
  nAppended,     \* number of samples written to the balance history so far
  req,           \* the request handled by the step just taken
  res,           \* the response written by the step just taken
  sent,          \* the envelope broadcast by the step just taken
  delivered      \* per subscriber, the envelopes passed to its send by that step

vars == <<now, sessions, commands, llm_requests, processes, events, clients,
          agentStatus, balanceFile, spendPc, nAppended, req, res, sent,
          delivered>>

\* ------------------------------------------------------------ bounds ----

\* Hours after each midnight at which the clock is observed.
Spread == 2
\* Rows a table holds at most in the model.
MaxRows == 2
\* Rows the store as a whole holds at most when every handler is in play.
MaxStoreRows == 3
\* Samples appended to the balance history at most in the model.
MaxAppends == 5
\* Samples the balance history keeps: the 1000 of history.slice(-1000), scaled
\* down so that eviction happens within MaxAppends appends.
HistoryCap == 3

\* ------------------------------------------------------- JS / SQL values --

Undefined == "undefined"
None == << >>
Some(n) == <<n>>
NaN == << >>

\* x || 0 for a number-or-nothing x: undefined, null and 0 are falsy.
OrZero(x) == IF x = None THEN 0 ELSE x[1]

Max(a, b) == IF a >= b THEN a ELSE b
Min(a, b) == IF a <= b THEN a ELSE b

NoReq == [path |-> "none"]
NoRes == [kind |-> "none"]
NoEnvelope == [type |-> "none"]

\* ------------------------------------------------------------- clock ----

OneHour == 1
OneDay == 24

\* The instants at which the clock is read: the first hours of two days.
Instants == {d * OneDay + h : d \in 0..1, h \in 0..Spread}

\* ------------------------------------------------------ cost engine -----

\* The rate table, in 1e-6 USD per 1K tokens.
costs ==
  [m \in {"gpt-4", "gpt-4-turbo", "gpt-3.5-turbo", "claude-3-opus",
          "claude-3-sonnet", "claude-3-haiku", "kimi-k2", "kimi-k2.5",
          "kimi-k2-0905-preview", "kimi-k2-thinking", "moonshot/kimi-k2.5",
          "moonshot/kimi-k2", "kimi-coding/kimi-k2-thinking"} |->
     CASE m = "gpt-4"           -> [input |-> Some(30000), output |-> Some(60000)]
       [] m = "gpt-4-turbo"     -> [input |-> Some(10000), output |-> Some(30000)]
       [] m = "gpt-3.5-turbo"   -> [input |-> Some(1500),  output |-> Some(2000)]
       [] m = "claude-3-opus"   -> [input |-> Some(15000), output |-> Some(75000)]
       [] m = "claude-3-sonnet" -> [input |-> Some(3000),  output |-> Some(15000)]
       [] m = "claude-3-haiku"  -> [input |-> Some(250),   output |-> Some(1250)]
       [] OTHER                 -> [input |-> Some(500),   output |-> Some(500)]]

\* Property names every object literal inherits from Object.prototype: costs[m]
\* is a function or an object for them, truthy, without input/output fields.
ObjectPrototypeKeys ==
  {"constructor", "__proto__", "toString", "valueOf", "hasOwnProperty",
   "isPrototypeOf", "propertyIsEnumerable", "toLocaleString"}

\* costs[model] || costs['gpt-3.5-turbo'].  A missing model indexes the key
\* "undefined".  An inherited property has neither rate: undefined.
modelCosts(model) ==
  IF model \in DOMAIN costs THEN costs[model]
  ELSE IF model \in ObjectPrototypeKeys THEN [input |-> None, output |-> None]
  ELSE costs["gpt-3.5-turbo"]

\* (tokens || 0) / 1000 * rate, in 1e-9 USD; NaN when the rate is undefined.
Charge(tokens, rate) ==
  IF rate = None THEN NaN ELSE Some(OrZero(tokens) * rate[1])

\* a + b on numbers-or-NaN.
Plus(a, b) == IF a = NaN \/ b = NaN THEN NaN ELSE Some(a[1] + b[1])

cost_usd(model, input_tokens, output_tokens) ==
  Plus(Charge(input_tokens, modelCosts(model).input),
       Charge(output_tokens, modelCosts(model).output))

total_tokens(input_tokens, output_tokens) ==
  OrZero(input_tokens) + OrZero(output_tokens)

\* ------------------------------------------------------- subscribers ----

\* The subscribers that may connect to the WebSocket server.
Clients == {"dashboard", "viewer"}

\* A subscriber's entry in wss.clients: the readyState of its WebSocket and the
\* condition of the socket under it.  "ok": writes reach the peer; "blocked":
\* the peer has stopped reading and writes are buffered; "broken": the peer is
\* gone, writes fail, and the server has not been told yet.
NoClient == [readyState |-> "NONE", socket |-> "none"]
Open(socket) == [readyState |-> "OPEN", socket |-> socket]
Closing == [readyState |-> "CLOSING", socket |-> "none"]

\* client.send called twice for every open subscriber.
DeliverTwice(envelope, cs) ==
  [c \in Clients |->
     IF envelope # NoEnvelope /\ cs[c].readyState = "OPEN"
     THEN <<envelope, envelope>> ELSE << >>]

\* client.send called for every member of wss.clients, open or not.
DeliverToAll(envelope, cs) ==
  [c \in Clients |->
     IF envelope # NoEnvelope /\ cs[c].readyState # "NONE"
     THEN <<envelope>> ELSE << >>]

\* broadcast(data): client.send once for every member of wss.clients whose
\* readyState is OPEN.  Nothing is kept of the envelope afterwards.
Deliver(envelope, cs) ==
  [c \in Clients |->
     IF envelope # NoEnvelope /\ cs[c].readyState = "OPEN"
     THEN <<envelope>> ELSE << >>]

\* ------------------------------------------------------------- Init ----

\* Readings of the balance collaborator, and the requests that may be in
\* flight at once.
Balances == {90, 100}
SpendRequests == {1, 2}

Init ==
  /\ now = 0
  /\ sessions = << >>
  /\ events = << >>
  /\ clients = [c \in Clients |-> NoClient]
  /\ commands = << >>
  /\ llm_requests = << >>
  /\ processes = << >>
  /\ agentStatus = [state |-> "idle", current_action |-> Undefined,
                    action_start_time |-> None, session_id |-> Undefined,
                    last_activity |-> 0]
  /\ balanceFile = << >>
  /\ spendPc = [r \in SpendRequests |-> "idle"]
  /\ nAppended = 0
  /\ req = NoReq
  /\ res = NoRes
  /\ sent = NoEnvelope
  /\ delivered = [c \in Clients |-> << >>]

\* Time passes: the clock moves to a later instant of T; no request is handled.
Tick(T) ==
  /\ \E t \in T : t > now /\ now' = t
  /\ req' = NoReq
  /\ res' = NoRes
  /\ sent' = NoEnvelope
  /\ delivered' = Deliver(sent', clients)
  /\ UNCHANGED <<sessions, events, clients, commands, llm_requests,
                 processes, agentStatus, balanceFile, spendPc, nAppended>>

\* res.status(500).json({ error: err.message })
StoreError == [kind |-> "error", status |-> 500]

\* The same response when the INSERT violates a constraint of the schema.
ConstraintError == [kind |-> "error", status |-> 500,
                    error |-> "SQLITE_CONSTRAINT"]

\* The store opened with PRAGMA foreign_keys = ON.
ForeignKeysOn == TRUE

\* new sqlite3.Database(DB_PATH) and nothing else: foreign keys stay off.
ForeignKeysEnforced == FALSE

\* FOREIGN KEY (session_id) REFERENCES sessions(id), where it is enforced: a
\* session_id that is not NULL must be the id of a sessions row.
ForeignKeyViolation(session_id) ==
  /\ ForeignKeysEnforced
  /\ session_id # Undefined
  /\ \A i \in DOMAIN sessions : sessions[i].id # session_id

\* The errors db.run may call back with for an INSERT carrying session_id.
InsertErrors(session_id) ==
  {StoreError} \cup
  (IF ForeignKeyViolation(session_id) THEN {ConstraintError} ELSE {})

\* ------------------------------------------ POST /api/session/start -----

\* A sessions table declared without PRIMARY KEY.
NoPrimaryKey(rows, id) == FALSE

\* id TEXT PRIMARY KEY: no two rows with the same id.  The key is not the
\* rowid, so SQLite lets any number of rows hold a NULL id.
PrimaryKeyViolation(rows, id) ==
  /\ id # Undefined
  /\ \E i \in DOMAIN rows : rows[i].id = id

\* The rows without those of the given id, in order.
RECURSIVE WithoutId(_, _)
WithoutId(rows, id) ==
  IF rows = << >> THEN << >>
  ELSE (IF Head(rows).id = id THEN << >> ELSE <<Head(rows)>>)
       \o WithoutId(Tail(rows), id)

\* The handler with INSERT OR REPLACE: a start for a stored id replaces the
\* stored row.
StartSessionUpsert(body) ==
  LET kept == IF body.id = Undefined THEN sessions
              ELSE WithoutId(sessions, body.id)
  IN
  /\ req' = [path |-> "/api/session/start", method |-> "POST", body |-> body]
  /\ \/ /\ res' = StoreError
        /\ sent' = NoEnvelope
        /\ UNCHANGED sessions
     \/ /\ Len(kept) < MaxRows
        /\ sessions' = Append(kept,
             [id |-> body.id,
              started_at |-> now,
              ended_at |-> None,
              agent_id |-> body.agent_id,
              model |-> body.model,
              status |-> "active"])
        /\ sent' = [type |-> "session_start",
                    data |-> [id |-> body.id,
                              agent_id |-> body.agent_id,
                              model |-> body.model]]
        /\ res' = [kind |-> "session_started", status |-> 200,
                   session_id |-> body.id]
  /\ delivered' = Deliver(sent', clients)
  /\ UNCHANGED <<now, commands, llm_requests, processes, events, clients,
                 agentStatus, balanceFile, spendPc, nAppended>>

StartSession(body) ==
  /\ req' = [path |-> "/api/session/start", method |-> "POST", body |-> body]
  /\ \/ /\ res' \in {StoreError} \cup
                   (IF PrimaryKeyViolation(sessions, body.id)
                    THEN {ConstraintError} ELSE {})
        /\ sent' = NoEnvelope
        /\ UNCHANGED sessions
     \/ /\ ~PrimaryKeyViolation(sessions, body.id)
        /\ Len(sessions) < MaxRows
        /\ sessions' = Append(sessions,
             [id |-> body.id,
              started_at |-> now,
              ended_at |-> None,
              agent_id |-> body.agent_id,
              model |-> body.model,
              status |-> "active"])
        /\ sent' = [type |-> "session_start",
                    data |-> [id |-> body.id,
                              agent_id |-> body.agent_id,
                              model |-> body.model]]
        /\ res' = [kind |-> "session_started", status |-> 200,
                   session_id |-> body.id]
  /\ delivered' = Deliver(sent', clients)
  /\ UNCHANGED <<now, commands, llm_requests, processes, events, clients,
                 agentStatus, balanceFile, spendPc, nAppended>>

\* ------------------------------------------------ POST /api/command -----

\* The handler with a client.send that throws when the write fails: the
\* exception leaves the callback before res.json.
RecordCommandSendThrows(body) ==
  /\ req' = [path |-> "/api/command", method |-> "POST", body |-> body]
  /\ \/ /\ res' \in InsertErrors(body.session_id)
        /\ sent' = NoEnvelope
        /\ UNCHANGED commands
     \/ /\ ~ForeignKeyViolation(body.session_id)
        /\ Len(commands) < MaxRows
        /\ commands' = Append(commands,
             [id |-> Len(commands) + 1,
              session_id |-> body.session_id,
              tool_name |-> body.tool_name,
              timestamp |-> now,
              duration_ms |-> body.duration_ms,
              success |-> IF body.success THEN 1 ELSE 0,
              error |-> body.error])
        /\ sent' = [type |-> "command",
                    data |-> [session_id |-> body.session_id,
                              tool_name |-> body.tool_name,
                              duration_ms |-> body.duration_ms,
                              success |-> body.success,
                              timestamp |-> now]]
        /\ res' = IF \E c \in Clients : clients[c] = Open("broken")
                  THEN NoRes
                  ELSE [kind |-> "inserted", status |-> 200,
                        id |-> Len(commands) + 1]
  /\ delivered' = Deliver(sent', clients)
  /\ UNCHANGED <<sessions, events, clients, now, llm_requests, processes,
                 agentStatus, balanceFile, spendPc, nAppended>>

\* db.run either calls back with err (nothing inserted) or inserts the row.
RecordCommand(body) ==
  /\ req' = [path |-> "/api/command", method |-> "POST", body |-> body]
  /\ \/ /\ res' \in InsertErrors(body.session_id)
        /\ sent' = NoEnvelope
        /\ UNCHANGED commands
     \/ /\ ~ForeignKeyViolation(body.session_id)
        /\ Len(commands) < MaxRows
        /\ commands' = Append(commands,
             [id |-> Len(commands) + 1,
              session_id |-> body.session_id,
              tool_name |-> body.tool_name,
              timestamp |-> now,
              duration_ms |-> body.duration_ms,
              success |-> IF body.success THEN 1 ELSE 0,
              error |-> body.error])
        /\ sent' = [type |-> "command",
                    data |-> [session_id |-> body.session_id,
                              tool_name |-> body.tool_name,
                              duration_ms |-> body.duration_ms,
                              success |-> body.success,
                              timestamp |-> now]]
        /\ res' = [kind |-> "inserted", status |-> 200, id |-> Len(commands) + 1]
  /\ delivered' = Deliver(sent', clients)
  /\ UNCHANGED <<sessions, events, clients, now, llm_requests, processes,
                 agentStatus, balanceFile, spendPc, nAppended>>

\* --------------------------------------------------- POST /api/llm ------

RecordModelUsage(body) ==
  LET total == total_tokens(body.input_tokens, body.output_tokens)
      cost == cost_usd(body.model, body.input_tokens, body.output_tokens)
  IN
  /\ req' = [path |-> "/api/llm", method |-> "POST", body |-> body]
  /\ \/ /\ res' \in InsertErrors(body.session_id)
        /\ sent' = NoEnvelope
        /\ UNCHANGED llm_requests
     \/ /\ ~ForeignKeyViolation(body.session_id)
        /\ Len(llm_requests) < MaxRows
        /\ llm_requests' = Append(llm_requests,
             [id |-> Len(llm_requests) + 1,
              session_id |-> body.session_id,
              model |-> body.model,
              provider |-> body.provider,
              timestamp |-> now,
              input_tokens |-> body.input_tokens,
              output_tokens |-> body.output_tokens,
              total_tokens |-> total,
              cost_usd |-> cost,
              thinking_time_ms |-> body.thinking_time_ms])
        /\ sent' = [type |-> "llm",
                    data |-> [session_id |-> body.session_id,
                              model |-> body.model,
                              provider |-> body.provider,
                              input_tokens |-> body.input_tokens,
                              output_tokens |-> body.output_tokens,
                              total_tokens |-> total,
                              cost_usd |-> cost,
                              timestamp |-> now]]
        /\ res' = [kind |-> "inserted", status |-> 200,
                   id |-> Len(llm_requests) + 1]
  /\ delivered' = Deliver(sent', clients)
  /\ UNCHANGED <<sessions, events, clients, now, commands, processes,
                 agentStatus, balanceFile, spendPc, nAppended>>

\* ------------------------------------------------ POST /api/process -----

\* UPDATE processes SET status = 'completed' WHERE pid = ?, the end timestamp
\* left as it was.
EndProcessesStatusOnly(rows, pid, t) ==
  [i \in DOMAIN rows |->
     IF pid # Undefined /\ rows[i].pid = pid
     THEN [rows[i] EXCEPT !.status = "completed"]
     ELSE rows[i]]

\* UPDATE processes SET ended_at = CURRENT_TIMESTAMP, status = 'completed'
\* WHERE pid = ?: every row of that pid; a NULL pid equals no row's pid.
EndProcesses(rows, pid, t) ==
  [i \in DOMAIN rows |->
     IF pid # Undefined /\ rows[i].pid = pid
     THEN [rows[i] EXCEPT !.ended_at = Some(t), !.status = "completed"]
     ELSE rows[i]]

RecordProcess(body) ==
  /\ req' = [path |-> "/api/process", method |-> "POST", body |-> body]
  /\ \/ /\ body.status = "start"
        /\ \/ /\ res' \in InsertErrors(body.session_id)
              /\ sent' = NoEnvelope
              /\ UNCHANGED processes
           \/ /\ ~ForeignKeyViolation(body.session_id)
              /\ Len(processes) < MaxRows
              /\ processes' = Append(processes,
                   [id |-> Len(processes) + 1,
                    session_id |-> body.session_id,
                    pid |-> body.pid,
                    command |-> body.command,
                    started_at |-> now,
                    ended_at |-> None,
                    status |-> "running"])
              /\ sent' = [type |-> "process_start",
                          data |-> [session_id |-> body.session_id,
                                    pid |-> body.pid,
                                    command |-> body.command]]
              /\ res' = [kind |-> "inserted", status |-> 200,
                         id |-> Len(processes) + 1]
     \/ /\ body.status = "end"
        /\ \/ /\ res' = StoreError
              /\ sent' = NoEnvelope
              /\ UNCHANGED processes
           \/ /\ processes' = EndProcesses(processes, body.pid, now)
              /\ sent' = [type |-> "process_end",
                          data |-> [session_id |-> body.session_id,
                                    pid |-> body.pid]]
              /\ res' = [kind |-> "updated", status |-> 200]
     \/ \* neither branch of the handler: nothing is run and nothing is answered
        /\ body.status \notin {"start", "end"}
        /\ res' = NoRes
        /\ sent' = NoEnvelope
        /\ UNCHANGED processes
  /\ delivered' = Deliver(sent', clients)
  /\ UNCHANGED <<sessions, events, clients, now, commands, llm_requests,
                 agentStatus, balanceFile, spendPc, nAppended>>

\* ----------------------------------------------- POST /api/thinking -----

\* JSON.stringify({ thought, step }): the members that are defined, in order.
StringifyThought(thought, step) ==
  (IF thought # Undefined THEN << <<"thought", thought>> >> ELSE << >>) \o
  (IF step # None THEN << <<"step", step[1]>> >> ELSE << >>)

\* The handler with broadcast moved in front of db.run: the envelope goes out
\* whether or not the row is written.
RecordThinkingBroadcastFirst(body) ==
  /\ req' = [path |-> "/api/thinking", method |-> "POST", body |-> body]
  /\ sent' = [type |-> "thinking",
              data |-> [session_id |-> body.session_id,
                        thought |-> body.thought,
                        step |-> body.step,
                        timestamp |-> now]]
  /\ \/ /\ res' \in InsertErrors(body.session_id)
        /\ UNCHANGED events
     \/ /\ ~ForeignKeyViolation(body.session_id)
        /\ Len(events) < MaxRows
        /\ events' = Append(events,
             [id |-> Len(events) + 1,
              session_id |-> body.session_id,
              event_type |-> "thinking",
              timestamp |-> now,
              data |-> StringifyThought(body.thought, body.step)])
        /\ res' = [kind |-> "inserted", status |-> 200, id |-> Len(events) + 1]
  /\ delivered' = Deliver(sent', clients)
  /\ UNCHANGED <<now, sessions, commands, llm_requests, processes, clients,
                 agentStatus, balanceFile, spendPc, nAppended>>

RecordThinking(body) ==
  /\ req' = [path |-> "/api/thinking", method |-> "POST", body |-> body]
  /\ \/ /\ res' \in InsertErrors(body.session_id)
        /\ sent' = NoEnvelope
        /\ UNCHANGED events
     \/ /\ ~ForeignKeyViolation(body.session_id)
        /\ Len(events) < MaxRows
        /\ events' = Append(events,
             [id |-> Len(events) + 1,
              session_id |-> body.session_id,
              event_type |-> "thinking",
              timestamp |-> now,
              data |-> StringifyThought(body.thought, body.step)])
        /\ sent' = [type |-> "thinking",
                    data |-> [session_id |-> body.session_id,
                              thought |-> body.thought,
                              step |-> body.step,
                              timestamp |-> now]]
        /\ res' = [kind |-> "inserted", status |-> 200, id |-> Len(events) + 1]
  /\ delivered' = Deliver(sent', clients)
  /\ UNCHANGED <<now, sessions, commands, llm_requests, processes, clients,
                 agentStatus, balanceFile, spendPc, nAppended>>

\* ------------------------------------------- /api/agent/status ----------

\* Falsy string values of a body field: absent, or the empty string.
Falsy(x) == x \in {Undefined, ""}

\* The handler with action_start_time: state === 'busy' ? now : null, which
\* clears the start time on every report that is not busy.
ReportStatusClearing(body) ==
  /\ req' = [path |-> "/api/agent/status", method |-> "POST", body |-> body]
  /\ agentStatus' =
       [state |-> IF Falsy(body.state) THEN agentStatus.state ELSE body.state,
        current_action |-> IF Falsy(body.current_action)
                           THEN agentStatus.current_action
                           ELSE body.current_action,
        action_start_time |-> IF body.state = "busy" THEN Some(now) ELSE None,
        session_id |-> IF Falsy(body.session_id) THEN agentStatus.session_id
                       ELSE body.session_id,
        last_activity |-> now]
  /\ sent' = [type |-> "status", data |-> agentStatus']
  /\ res' = [kind |-> "status_report", status |-> 200, agent |-> agentStatus']
  /\ delivered' = Deliver(sent', clients)
  /\ UNCHANGED <<sessions, events, clients, now, commands, llm_requests,
                 processes, balanceFile, spendPc, nAppended>>

\* The handler with the start time taken only when the report names an
\* action: current_action ? now : agentStatus.action_start_time.
ReportStatusStartWithAction(body) ==
  /\ req' = [path |-> "/api/agent/status", method |-> "POST", body |-> body]
  /\ agentStatus' =
       [state |-> IF Falsy(body.state) THEN agentStatus.state ELSE body.state,
        current_action |-> IF Falsy(body.current_action)
                           THEN agentStatus.current_action
                           ELSE body.current_action,
        action_start_time |-> IF ~Falsy(body.current_action) THEN Some(now)
                              ELSE agentStatus.action_start_time,
        session_id |-> IF Falsy(body.session_id) THEN agentStatus.session_id
                       ELSE body.session_id,
        last_activity |-> now]
  /\ sent' = [type |-> "status", data |-> agentStatus']
  /\ res' = [kind |-> "status_report", status |-> 200, agent |-> agentStatus']
  /\ delivered' = Deliver(sent', clients)
  /\ UNCHANGED <<sessions, events, clients, now, commands, llm_requests,
                 processes, balanceFile, spendPc, nAppended>>

\* The handler with current_action !== undefined ? current_action : ...: an
\* empty label replaces the previous one.
ReportStatusEmptyClears(body) ==
  /\ req' = [path |-> "/api/agent/status", method |-> "POST", body |-> body]
  /\ agentStatus' =
       [state |-> IF Falsy(body.state) THEN agentStatus.state ELSE body.state,
        current_action |-> IF body.current_action = Undefined
                           THEN agentStatus.current_action
                           ELSE body.current_action,
        action_start_time |-> IF body.state = "busy" THEN Some(now)
                              ELSE agentStatus.action_start_time,
        session_id |-> IF Falsy(body.session_id) THEN agentStatus.session_id
                       ELSE body.session_id,
        last_activity |-> now]
  /\ sent' = [type |-> "status", data |-> agentStatus']
  /\ res' = [kind |-> "status_report", status |-> 200, agent |-> agentStatus']
  /\ delivered' = Deliver(sent', clients)
  /\ UNCHANGED <<sessions, events, clients, now, commands, llm_requests,
                 processes, balanceFile, spendPc, nAppended>>

\* POST: state || agentStatus.state, and so on; no store is involved.
ReportStatus(body) ==
  /\ req' = [path |-> "/api/agent/status", method |-> "POST", body |-> body]
  /\ agentStatus' =
       [state |-> IF Falsy(body.state) THEN agentStatus.state ELSE body.state,
        current_action |-> IF Falsy(body.current_action)
                           THEN agentStatus.current_action
                           ELSE body.current_action,
        action_start_time |-> IF body.state = "busy" THEN Some(now)
                              ELSE agentStatus.action_start_time,
        session_id |-> IF Falsy(body.session_id) THEN agentStatus.session_id
                       ELSE body.session_id,
        last_activity |-> now]
  /\ sent' = [type |-> "status", data |-> agentStatus']
  /\ res' = [kind |-> "status_report", status |-> 200, agent |-> agentStatus']
  /\ delivered' = Deliver(sent', clients)
  /\ UNCHANGED <<sessions, events, clients, now, commands, llm_requests,
                 processes, balanceFile, spendPc, nAppended>>

\* Date.now() - action_start_time whenever a start time is recorded, in any
\* state.
ElapsedAnyState(status, t) ==
  IF status.action_start_time # None
  THEN Some(t - status.action_start_time[1])
  ELSE None

\* elapsed_ms: Date.now() - action_start_time if busy with a start time.
ElapsedMs(status, t) ==
  IF status.state = "busy" /\ status.action_start_time # None
  THEN Some(t - status.action_start_time[1])
  ELSE None

\* The handler recording the read as activity.
ReadStatusTouching ==
  /\ req' = [path |-> "/api/agent/status", method |-> "GET"]
  /\ agentStatus' = [agentStatus EXCEPT !.last_activity = now]
  /\ res' = [kind |-> "status_read", status |-> 200, agent |-> agentStatus',
             elapsed_ms |-> ElapsedMs(agentStatus', now)]
  /\ sent' = NoEnvelope
  /\ delivered' = Deliver(sent', clients)
  /\ UNCHANGED <<sessions, events, clients, now, commands, llm_requests,
                 processes, balanceFile, spendPc, nAppended>>

\* GET
ReadStatus ==
  /\ req' = [path |-> "/api/agent/status", method |-> "GET"]
  /\ res' = [kind |-> "status_read", status |-> 200, agent |-> agentStatus,
             elapsed_ms |-> ElapsedMs(agentStatus, now)]
  /\ sent' = NoEnvelope
  /\ delivered' = Deliver(sent', clients)
  /\ UNCHANGED <<sessions, events, clients, now, commands, llm_requests,
                 processes, agentStatus, balanceFile, spendPc, nAppended>>

\* ------------------------------------------ GET /api/dashboard/recent ---

DefaultLimit == 50

\* parseInt(req.query.limit) || 50: a missing or non-numeric limit parses to
\* NaN, and NaN and 0 are falsy.
RecentLimit(q) == IF q = NaN \/ q = Some(0) THEN DefaultLimit ELSE q[1]

\* The inner SELECT ... UNION ALL SELECT ...
RecentUnion ==
  [i \in 1..Len(commands) |->
     [type |-> "command", name |-> commands[i].tool_name,
      timestamp |-> commands[i].timestamp,
      session_id |-> commands[i].session_id,
      duration_ms |-> commands[i].duration_ms,
      success |-> Some(commands[i].success)]]
  \o
  [i \in 1..Len(llm_requests) |->
     [type |-> "llm", name |-> llm_requests[i].model,
      timestamp |-> llm_requests[i].timestamp,
      session_id |-> llm_requests[i].session_id,
      duration_ms |-> Some(llm_requests[i].total_tokens),
      success |-> None]]

\* ORDER BY timestamp DESC: every order of the rows with the indices in S in
\* which timestamps do not increase (rows of equal timestamp in any order).
RECURSIVE OrderByTimestampDesc(_, _)
OrderByTimestampDesc(rows, S) ==
  IF S = {} THEN {<< >>}
  ELSE UNION {{<<rows[i]>> \o rest : rest \in OrderByTimestampDesc(rows, S \ {i})} :
              i \in {j \in S : \A k \in S : rows[k].timestamp <= rows[j].timestamp}}

\* LIMIT n: a negative n is no limit.
SqlLimit(rows, n) ==
  IF n < 0 THEN rows ELSE SubSeq(rows, 1, Min(n, Len(rows)))

GetRecent(q) ==
  /\ req' = [path |-> "/api/dashboard/recent", method |-> "GET",
             query |-> [limit |-> q]]
  /\ \/ res' = StoreError
     \/ \E ordered \in OrderByTimestampDesc(RecentUnion, DOMAIN RecentUnion) :
          res' = [kind |-> "rows", status |-> 200,
                  rows |-> SqlLimit(ordered, RecentLimit(q))]
  /\ sent' = NoEnvelope
  /\ delivered' = Deliver(sent', clients)
  /\ UNCHANGED <<sessions, events, clients, now, commands, llm_requests,
                 processes, agentStatus, balanceFile, spendPc, nAppended>>

\* ----------------------------------------- GET /api/dashboard/summary ---

\* WHERE s.started_at > datetime('now', '-24 hours')
StartedInWindow(s) == s.started_at > now - OneDay

\* The rows of a table that ON s.id = t.session_id joins to session s: a NULL
\* on either side equals nothing.
JoinedTo(s, table) ==
  {j \in DOMAIN table :
     s.id # Undefined /\ table[j].session_id = s.id}

\* LEFT JOIN: a session with no matching row is joined to one NULL row, 0.
OrNullRow(S) == IF S = {} THEN {0} ELSE S

\* FROM sessions s LEFT JOIN commands c ... LEFT JOIN llm_requests l ...
\* WHERE ...: the joined rows <<session, command, usage>>, by row index.
SummaryJoin ==
  UNION {{<<i, j, k>> : j \in OrNullRow(JoinedTo(sessions[i], commands)),
                        k \in OrNullRow(JoinedTo(sessions[i], llm_requests))} :
         i \in {n \in DOMAIN sessions : StartedInWindow(sessions[n])}}

\* SUM(l.column) over joined rows: NULL columns and NULL rows are skipped;
\* NULL when nothing is left.
RECURSIVE SumUsage(_, _)
SumUsage(J, column) ==
  IF J = {} THEN None
  ELSE LET t == CHOOSE x \in J : TRUE
           rest == SumUsage(J \ {t}, column)
           v == IF t[3] = 0 THEN None ELSE llm_requests[t[3]][column]
       IN IF v = None THEN rest
          ELSE IF rest = None THEN v
          ELSE Some(v[1] + rest[1])

\* The one row of the aggregate query.
SummaryRow ==
  [total_sessions |->
     Cardinality({sessions[t[1]].id : t \in SummaryJoin} \ {Undefined}),
   active_sessions |->
     Cardinality({sessions[t[1]].id :
                    t \in {u \in SummaryJoin :
                             sessions[u[1]].status = "active"}}
                 \ {Undefined}),
   total_commands |-> Cardinality({t \in SummaryJoin : t[2] # 0}),
   total_input_tokens |-> SumUsage(SummaryJoin, "input_tokens"),
   total_output_tokens |-> SumUsage(SummaryJoin, "output_tokens"),
   total_cost |-> SumUsage(SummaryJoin, "cost_usd")]

GetSummary ==
  /\ req' = [path |-> "/api/dashboard/summary", method |-> "GET"]
  /\ \/ res' = StoreError
     \/ res' = [kind |-> "summary", status |-> 200, row |-> SummaryRow]
  /\ sent' = NoEnvelope
  /\ delivered' = Deliver(sent', clients)
  /\ UNCHANGED <<now, sessions, commands, llm_requests, processes, events,
                 clients, agentStatus, balanceFile, spendPc, nAppended>>

\* ------------------------------------------- GET /api/dashboard/costs ---

OneWeek == 7 * OneDay

\* date(timestamp): the day the instant falls on.
DateOf(t) == t \div OneDay

\* WHERE timestamp > datetime('now', '-7 days')
CostRows == {k \in DOMAIN llm_requests : llm_requests[k].timestamp > now - OneWeek}

\* SUM(column) over the usage rows K: NULLs are skipped; NULL when nothing is
\* left.
RECURSIVE SqlSum(_, _)
SqlSum(K, column) ==
  IF K = {} THEN None
  ELSE LET k == CHOOSE x \in K : TRUE
           rest == SqlSum(K \ {k}, column)
           v == llm_requests[k][column]
       IN IF v = None THEN rest
          ELSE IF rest = None THEN v
          ELSE Some(v[1] + rest[1])

\* GROUP BY date(timestamp), model: one row per day and model.
CostGroups ==
  {[date |-> g[1], model |-> g[2],
    request_count |-> Cardinality(
      {k \in CostRows : DateOf(llm_requests[k].timestamp) = g[1]
                         /\ llm_requests[k].model = g[2]}),
    input_tokens |-> SqlSum(
      {k \in CostRows : DateOf(llm_requests[k].timestamp) = g[1]
                         /\ llm_requests[k].model = g[2]}, "input_tokens"),
    output_tokens |-> SqlSum(
      {k \in CostRows : DateOf(llm_requests[k].timestamp) = g[1]
                         /\ llm_requests[k].model = g[2]}, "output_tokens"),
    cost |-> SqlSum(
      {k \in CostRows : DateOf(llm_requests[k].timestamp) = g[1]
                         /\ llm_requests[k].model = g[2]}, "cost_usd")] :
   g \in {<<DateOf(llm_requests[k].timestamp), llm_requests[k].model>> :
            k \in CostRows}}

\* ORDER BY date DESC: every order of the groups in which dates do not
\* increase.
RECURSIVE OrderByDateDesc(_)
OrderByDateDesc(G) ==
  IF G = {} THEN {<< >>}
  ELSE UNION {{<<g>> \o rest : rest \in OrderByDateDesc(G \ {g})} :
              g \in {h \in G : \A o \in G : o.date <= h.date}}

GetCosts ==
  /\ req' = [path |-> "/api/dashboard/costs", method |-> "GET"]
  /\ \/ res' = StoreError
     \/ \E ordered \in OrderByDateDesc(CostGroups) :
          res' = [kind |-> "costs", status |-> 200, rows |-> ordered]
  /\ sent' = NoEnvelope
  /\ delivered' = Deliver(sent', clients)
  /\ UNCHANGED <<now, sessions, commands, llm_requests, processes, events,
                 clients, agentStatus, balanceFile, spendPc, nAppended>>

\* ------------------------------------------------ GET /api/thinking -----

DefaultThinkingLimit == 20

\* parseInt(req.query.limit) || 20
ThinkingLimit(q) ==
  IF q = NaN \/ q = Some(0) THEN DefaultThinkingLimit ELSE q[1]

\* JSON.parse(row.data): the members the text holds; the others are absent.
ParseThought(data) ==
  [thought |-> IF \E n \in DOMAIN data : data[n][1] = "thought"
               THEN data[CHOOSE n \in DOMAIN data : data[n][1] = "thought"][2]
               ELSE Undefined,
   step |-> IF \E n \in DOMAIN data : data[n][1] = "step"
            THEN Some(data[CHOOSE n \in DOMAIN data : data[n][1] = "step"][2])
            ELSE None]

\* SELECT session_id, event_type, timestamp, data FROM events, with the data
\* parsed.
ThoughtRows ==
  [i \in DOMAIN events |->
     [session_id |-> events[i].session_id,
      event_type |-> events[i].event_type,
      timestamp |-> events[i].timestamp,
      data |-> ParseThought(events[i].data)]]

GetThinking(q) ==
  /\ req' = [path |-> "/api/thinking", method |-> "GET",
             query |-> [limit |-> q]]
  /\ \/ res' = StoreError
     \/ \E ordered \in OrderByTimestampDesc(ThoughtRows,
            {i \in DOMAIN events : events[i].event_type = "thinking"}) :
          res' = [kind |-> "thoughts", status |-> 200,
                  rows |-> SqlLimit(ordered, ThinkingLimit(q))]
  /\ sent' = NoEnvelope
  /\ delivered' = Deliver(sent', clients)
  /\ UNCHANGED <<now, sessions, commands, llm_requests, processes, events,
                 clients, agentStatus, balanceFile, spendPc, nAppended>>

\* ------------------------------------------ GET /api/moonshot/spend -----

\* history.slice(0, n): the first n samples.
KeepFirst(history, n) ==
  IF Len(history) <= n THEN history ELSE SubSeq(history, 1, n)

\* history.slice(-n): the last n samples.
KeepLast(history, n) ==
  IF Len(history) <= n THEN history
  ELSE SubSeq(history, Len(history) - n + 1, Len(history))

\* Math.floor(n / d), d > 0.
Floor(n, d) == n \div d

\* Math.round(n / d), d > 0: the nearest integer, halves towards +infinity.
Round(n, d) == (2 * n + d) \div (2 * d)

\* history.filter(h => new Date(h.timestamp) <= cutoff).shift(): the first
\* sample in sequence order at or before the cutoff.
FirstAtOrBefore(history, cutoff) ==
  LET S == {i \in DOMAIN history : history[i].timestamp <= cutoff}
  IN IF S = {} THEN None
     ELSE Some(history[CHOOSE i \in S : \A j \in S : i <= j])

\* history.filter(h => new Date(h.timestamp) >= cutoff).shift(): the first
\* sample inside the window that starts at the cutoff.
FirstAtOrAfter(history, cutoff) ==
  LET S == {i \in DOMAIN history : history[i].timestamp >= cutoff}
  IN IF S = {} THEN None
     ELSE Some(history[CHOOSE i \in S : \A j \in S : i <= j])

\* history.filter(h => new Date(h.timestamp) <= cutoff).pop(): the last sample
\* in sequence order at or before the cutoff, undefined if there is none.
LastAtOrBefore(history, cutoff) ==
  LET S == {i \in DOMAIN history : history[i].timestamp <= cutoff}
  IN IF S = {} THEN None
     ELSE Some(history[CHOOSE i \in S : \A j \in S : j <= i])

\* The period of a window: present if a reading at or before (t - window)
\* exists.
Period(history, currentBalance, cutoff) ==
  LET reading == LastAtOrBefore(history, cutoff)
  IN IF reading = None THEN None
     ELSE Some([spent |-> reading[1].balance - currentBalance,
                start_balance |-> reading[1].balance,
                reading_time |-> reading[1].timestamp])

\* hourly_rate, in 1/100 currency units per hour:
\* hoursTracked > 0 ? Math.round((totalSpent / hoursTracked) * 100) / 100 : 0
HourlyRate(totalSpent, elapsed) ==
  IF elapsed > 0 THEN Round(100 * totalSpent * OneHour, elapsed) ELSE 0

\* total_tracked; hours in 1/10 hour: Math.round(hoursTracked * 10) / 10.
TotalTracked(history, currentBalance, t) ==
  IF Len(history) > 1
  THEN Some([spent |-> history[1].balance - currentBalance,
             since |-> history[1].timestamp,
             hours |-> Round(10 * (t - history[1].timestamp), OneHour),
             hourly_rate |-> HourlyRate(history[1].balance - currentBalance,
                                        t - history[1].timestamp)])
  ELSE None

spendAnalysis(history, currentBalance, t) ==
  [current_balance |-> currentBalance,
   history_count |-> Len(history),
   total_tracked |-> TotalTracked(history, currentBalance, t),
   periods |-> [last_hour |-> Period(history, currentBalance, t - OneHour),
                last_24h |-> Period(history, currentBalance, t - OneDay)]]

\* The handler up to its first await: the balance request is under way.
SpendStart(r) ==
  /\ spendPc[r] = "idle"
  /\ spendPc' = [spendPc EXCEPT ![r] = "fetching"]
  /\ req' = [path |-> "/api/moonshot/spend", method |-> "GET", id |-> r]
  /\ res' = NoRes
  /\ sent' = NoEnvelope
  /\ delivered' = Deliver(sent', clients)
  /\ UNCHANGED <<sessions, events, clients, now, commands, llm_requests,
                 processes, agentStatus, balanceFile, nAppended>>

\* The handler with the sample pushed and saved before the payload's status
\* is looked at: a failure payload leaves a sample without a balance, 0 here.
SpendUpstreamErrorAppends(r) ==
  /\ spendPc[r] = "fetching"
  /\ nAppended < MaxAppends
  /\ spendPc' = [spendPc EXCEPT ![r] = "idle"]
  /\ balanceFile' = KeepLast(Append(balanceFile,
                                     [timestamp |-> now, balance |-> 0]),
                             HistoryCap)
  /\ nAppended' = nAppended + 1
  /\ req' = [path |-> "/api/moonshot/spend", method |-> "GET", id |-> r,
             upstream |-> None]
  /\ res' = [kind |-> "upstream_error", status |-> 500]
  /\ sent' = NoEnvelope
  /\ delivered' = Deliver(sent', clients)
  /\ UNCHANGED <<sessions, events, clients, now, commands, llm_requests,
                 processes, agentStatus>>

\* fetch or response.json() rejects, or the payload has no status: 500.
SpendUpstreamError(r) ==
  /\ spendPc[r] = "fetching"
  /\ spendPc' = [spendPc EXCEPT ![r] = "idle"]
  /\ req' = [path |-> "/api/moonshot/spend", method |-> "GET", id |-> r,
             upstream |-> None]
  /\ res' = [kind |-> "upstream_error", status |-> 500]
  /\ sent' = NoEnvelope
  /\ delivered' = Deliver(sent', clients)
  /\ UNCHANGED <<sessions, events, clients, now, commands, llm_requests,
                 processes, agentStatus, balanceFile, nAppended>>

\* The handler with a loadBalanceHistory that yields [] although the file
\* holds samples: what is saved is the new sample alone.
SpendCompleteOverwrites(r, reading) ==
  LET history == <<[timestamp |-> now, balance |-> reading]>>
  IN
  /\ spendPc[r] = "fetching"
  /\ nAppended < MaxAppends
  /\ spendPc' = [spendPc EXCEPT ![r] = "idle"]
  /\ balanceFile' = history
  /\ nAppended' = nAppended + 1
  /\ req' = [path |-> "/api/moonshot/spend", method |-> "GET", id |-> r,
             upstream |-> Some(reading)]
  /\ res' = [kind |-> "spend", status |-> 200,
             analysis |-> spendAnalysis(history, reading, now)]
  /\ sent' = NoEnvelope
  /\ delivered' = Deliver(sent', clients)
  /\ UNCHANGED <<sessions, events, clients, now, commands, llm_requests,
                 processes, agentStatus>>

\* The handler with history.unshift in place of history.push and slice(0, n)
\* in place of slice(-n): the new sample goes in front of the older ones.
SpendCompletePrepends(r, reading) ==
  LET history == KeepFirst(<<[timestamp |-> now, balance |-> reading]>>
                             \o balanceFile,
                           HistoryCap)
  IN
  /\ spendPc[r] = "fetching"
  /\ nAppended < MaxAppends
  /\ spendPc' = [spendPc EXCEPT ![r] = "idle"]
  /\ balanceFile' = history
  /\ nAppended' = nAppended + 1
  /\ req' = [path |-> "/api/moonshot/spend", method |-> "GET", id |-> r,
             upstream |-> Some(reading)]
  /\ res' = [kind |-> "spend", status |-> 200,
             analysis |-> spendAnalysis(history, reading, now)]
  /\ sent' = NoEnvelope
  /\ delivered' = Deliver(sent', clients)
  /\ UNCHANGED <<sessions, events, clients, now, commands, llm_requests,
                 processes, agentStatus>>

\* The reading arrives: load, push, slice, save and the analytics, which run
\* without an await between them.
SpendComplete(r, reading) ==
  LET history == KeepLast(Append(balanceFile,
                                 [timestamp |-> now, balance |-> reading]),
                          HistoryCap)
  IN
  /\ spendPc[r] = "fetching"
  /\ nAppended < MaxAppends
  /\ spendPc' = [spendPc EXCEPT ![r] = "idle"]
  /\ balanceFile' = history
  /\ nAppended' = nAppended + 1
  /\ req' = [path |-> "/api/moonshot/spend", method |-> "GET", id |-> r,
             upstream |-> Some(reading)]
  /\ res' = [kind |-> "spend", status |-> 200,
             analysis |-> spendAnalysis(history, reading, now)]
  /\ sent' = NoEnvelope
  /\ delivered' = Deliver(sent', clients)
  /\ UNCHANGED <<sessions, events, clients, now, commands, llm_requests,
                 processes, agentStatus>>

\* --------------------------------------- GET /api/moonshot/balance ------

\* The handler touches no state before or after its awaits, so it is one
\* step: the collaborator fails (no reading) or returns a reading, which is
\* passed on with the time of the answer.
GetBalance(upstream) ==
  /\ req' = [path |-> "/api/moonshot/balance", method |-> "GET",
             upstream |-> upstream]
  /\ res' = IF upstream = None
            THEN [kind |-> "upstream_error", status |-> 500]
            ELSE [kind |-> "balance", status |-> 200,
                  available_balance |-> upstream[1], last_updated |-> now]
  /\ sent' = NoEnvelope
  /\ delivered' = Deliver(sent', clients)
  /\ UNCHANGED <<now, sessions, commands, llm_requests, processes, events,
                 clients, agentStatus, balanceFile, spendPc, nAppended>>

\* ------------------------------------------- subscriber connections -----

\* What every step of a connection leaves alone: no request is handled.
ConnectionStep ==
  /\ req' = NoReq
  /\ res' = NoRes
  /\ sent' = NoEnvelope
  /\ delivered' = Deliver(sent', clients)
  /\ UNCHANGED <<now, sessions, commands, llm_requests, processes, events,
                 agentStatus, balanceFile, spendPc, nAppended>>

\* A handshake completes: the WebSocket joins wss.clients, open.
Connect(c) ==
  /\ clients[c] = NoClient
  /\ clients' = [clients EXCEPT ![c] = Open("ok")]
  /\ ConnectionStep

\* The peer stops reading: the connection stays open, what is sent piles up.
PeerStalls(c) ==
  /\ clients[c] = Open("ok")
  /\ clients' = [clients EXCEPT ![c] = Open("blocked")]
  /\ ConnectionStep

\* The peer goes away without a close: the connection still counts as open.
PeerVanishes(c) ==
  /\ clients[c] \in {Open("ok"), Open("blocked")}
  /\ clients' = [clients EXCEPT ![c] = Open("broken")]
  /\ ConnectionStep

\* A close frame or a socket error reaches the server: readyState CLOSING.
StartClosing(c) ==
  /\ clients[c].readyState = "OPEN"
  /\ clients' = [clients EXCEPT ![c] = Closing]
  /\ ConnectionStep

\* The socket closes: the WebSocket leaves wss.clients.
Closed(c) ==
  /\ clients[c] = Closing
  /\ clients' = [clients EXCEPT ![c] = NoClient]
  /\ ConnectionStep

\* ------------------------------------------------- request bodies -------

SessionBodies ==
  [id : {"s1", Undefined}, agent_id : {"executor", "planner"},
   model : {"kimi-k2"}]

\* Bodies of the ingestion handlers: a session that may exist ("s1"), one
\* that never does ("s9"), and bodies that lack a field.
IngestCommandBodies ==
  {b \in [session_id : {"s1", "s9"}, tool_name : {"web_search", Undefined},
          duration_ms : {Some(1500)}, success : {TRUE}, error : {Undefined}] :
     b.tool_name = Undefined => b.session_id = "s1"}

IngestUsageBodies ==
  {b \in [session_id : {"s1", "s9"}, model : {"kimi-k2"},
          provider : {"moonshot"}, input_tokens : {None, Some(1024)},
          output_tokens : {None, Some(512)}, thinking_time_ms : {None}] :
     /\ (b.input_tokens = None) = (b.output_tokens = None)
     /\ b.input_tokens = None => b.session_id = "s1"}

IngestProcessBodies ==
  [session_id : {"s1", "s9"}, pid : {"42"}, command : {"sleep"},
   status : {"start", "end", "restart"}]

ThinkingBodies ==
  [session_id : {"s1", "s9"}, thought : {"plan"}, step : {None, Some(1)}]

IngestStatusBodies ==
  [state : {"busy"}, current_action : {"web_search"}, session_id : {"s1"}]


UsageBodies ==
  [session_id : {"s1"},
   model : {"kimi-k2", "llama-3", "constructor", Undefined},
   provider : {"moonshot"},
   input_tokens : {None, Some(0), Some(1024)},
   output_tokens : {Some(0), Some(512)},
   thinking_time_ms : {None}]

CommandBodies ==
  [session_id : {"s1"}, tool_name : {"web_search"},
   duration_ms : {Some(1500)}, success : {TRUE, FALSE}, error : {Undefined}]

\* Values of the limit query parameter: absent, 0, negative, positive.
LimitQueries == {None, Some(0), Some(0 - 1), Some(1), Some(2)}

ProcessBodies ==
  [session_id : {"s1", "s2"}, pid : {"42", "99", Undefined},
   command : {"sleep"}, status : {"start", "end", "restart"}]

StatusBodies ==
  [state : {Undefined, "", "idle", "thinking", "busy", "error", "paused"},
   current_action : {Undefined, "", "web_search"},
   session_id : {Undefined, "s1"}]

\* ------------------------------------------------ specifications --------

\* Usage recording alone.
NextUsage ==
  \E body \in UsageBodies : RecordModelUsage(body)

SpecUsage == Init /\ [][NextUsage]_vars

\* Commands, usage and the recent-activity query, with time passing.
NextRecent ==
  \/ \E body \in CommandBodies : RecordCommand(body)
  \/ \E body \in {b \in UsageBodies : b.model = "kimi-k2" /\ b.input_tokens = Some(1024)
                                       /\ b.output_tokens = Some(512)} :
       RecordModelUsage(body)
  \/ \E q \in LimitQueries : GetRecent(q)
  \/ Tick({OneHour, 2 * OneHour})

SpecRecent == Init /\ [][NextRecent]_vars

\* The process lifecycle, with time passing.
NextProcess ==
  \/ \E body \in ProcessBodies : RecordProcess(body)
  \/ Tick({OneHour, 2 * OneHour})

SpecProcess == Init /\ [][NextProcess]_vars

\* The agent status tracker, with time passing.
NextStatus ==
  \/ \E body \in StatusBodies : ReportStatus(body)
  \/ ReadStatus
  \/ Tick(Instants)

SpecStatus == Init /\ [][NextStatus]_vars

\* The balance history and its analytics, with time passing.
NextSpend ==
  \/ \E r \in SpendRequests : SpendStart(r)
  \/ \E r \in SpendRequests : SpendUpstreamError(r)
  \/ \E r \in SpendRequests, reading \in Balances : SpendComplete(r, reading)
  \/ \E upstream \in {None} \cup {Some(b) : b \in Balances} : GetBalance(upstream)
  \/ Tick(Instants)

SpecSpend == Init /\ [][NextSpend]_vars

\* Rows in the store as a whole.
StoreRows ==
  Len(sessions) + Len(commands) + Len(llm_requests) + Len(processes)
  + Len(events)

\* Every ingestion handler, while the store holds fewer than MaxStoreRows
\* rows, with one subscriber that may connect.
NextIngest ==
  \/ StoreRows < MaxStoreRows /\ \E body \in SessionBodies : StartSession(body)
  \/ StoreRows < MaxStoreRows
       /\ \E body \in IngestCommandBodies : RecordCommand(body)
  \/ StoreRows < MaxStoreRows
       /\ \E body \in IngestUsageBodies : RecordModelUsage(body)
  \/ StoreRows < MaxStoreRows
       /\ \E body \in IngestProcessBodies : RecordProcess(body)
  \/ StoreRows < MaxStoreRows /\ \E body \in ThinkingBodies : RecordThinking(body)
  \/ StoreRows < MaxStoreRows
       /\ \E body \in IngestStatusBodies : ReportStatus(body)
  \/ Connect("dashboard")

SpecIngest == Init /\ [][NextIngest]_vars

\* Broadcasts of two handlers to subscribers that come, stall, fail and go.
NextFanout ==
  \/ \E body \in {b \in CommandBodies : b.success} : RecordCommand(body)
  \/ \E body \in IngestStatusBodies : ReportStatus(body)
  \/ \E c \in Clients : Connect(c)
  \/ \E c \in Clients : PeerStalls(c)
  \/ \E c \in Clients : PeerVanishes(c)
  \/ \E c \in Clients : StartClosing(c)
  \/ \E c \in Clients : Closed(c)

SpecFanout == Init /\ [][NextFanout]_vars

\* The summary query over sessions, commands and usage a day apart.
SummaryCommandBodies ==
  [session_id : {"s1", "s9"}, tool_name : {"web_search"},
   duration_ms : {Some(1500)}, success : {TRUE}, error : {Undefined}]

SummaryUsageBodies ==
  [session_id : {"s1"}, model : {"kimi-k2"}, provider : {"moonshot"},
   input_tokens : {Some(1024)}, output_tokens : {None, Some(512)},
   thinking_time_ms : {None}]

NextSummary ==
  \/ \E body \in {b \in SessionBodies : b.agent_id = "executor"} :
       StartSession(body)
  \/ \E body \in SummaryCommandBodies : RecordCommand(body)
  \/ \E body \in SummaryUsageBodies : RecordModelUsage(body)
  \/ GetSummary
  \/ Tick({OneDay})

SpecSummary == Init /\ [][NextSummary]_vars

\* Two spend requests in flight at once.  A request that can start does
\* start, and a fetch under way resolves: with a reading while the history
\* may still grow, with a failure otherwise.
NextRace ==
  \/ \E r \in SpendRequests : SpendStart(r)
  \/ \E r \in SpendRequests : SpendUpstreamError(r)
  \/ \E r \in SpendRequests, reading \in Balances : SpendComplete(r, reading)
  \/ Tick({OneHour, 2 * OneHour})

SpecRace ==
  /\ Init
  /\ [][NextRace]_vars
  /\ WF_vars(\E r \in SpendRequests : SpendStart(r))
  /\ WF_vars(\E r \in SpendRequests, reading \in Balances :
               SpendComplete(r, reading))

\* The balance endpoints next to ingestion, a status report and a subscriber.
NextUpstream ==
  \/ \E body \in {b \in CommandBodies : b.success} : RecordCommand(body)
  \/ \E body \in IngestStatusBodies : ReportStatus(body)
  \/ Connect("dashboard")
  \/ \E r \in SpendRequests : SpendStart(r)
  \/ \E r \in SpendRequests : SpendUpstreamError(r)
  \/ \E r \in SpendRequests, reading \in Balances : SpendComplete(r, reading)
  \/ \E upstream \in {None} \cup {Some(b) : b \in Balances} : GetBalance(upstream)

SpecUpstream == Init /\ [][NextUpstream]_vars

\* The query handlers interleaved with ingestion, while the store holds
\* fewer than MaxStoreRows rows, a day passing and a subscriber connecting.
NextQuery ==
  \/ StoreRows < MaxStoreRows
       /\ \E body \in {b \in SessionBodies : b.agent_id = "executor"} :
            StartSession(body)
  \/ StoreRows < MaxStoreRows
       /\ \E body \in {b \in CommandBodies : b.success} : RecordCommand(body)
  \/ StoreRows < MaxStoreRows
       /\ \E body \in {b \in SummaryUsageBodies : b.output_tokens # None} :
            RecordModelUsage(body)
  \/ StoreRows < MaxStoreRows
       /\ \E body \in {b \in ThinkingBodies : b.session_id = "s1"} :
            RecordThinking(body)
  \/ \E body \in IngestStatusBodies : ReportStatus(body)
  \/ GetSummary
  \/ \E q \in {None, Some(1)} : GetRecent(q)
  \/ GetCosts
  \/ \E q \in {None, Some(1)} : GetThinking(q)
  \/ ReadStatus
  \/ Connect("dashboard")
  \/ Tick({OneDay})

SpecQuery == Init /\ [][NextQuery]_vars

\* The collector as a whole.
Next ==
  \/ GetCosts
  \/ \E q \in LimitQueries : GetThinking(q)
  \/ \E upstream \in {None} \cup {Some(b) : b \in Balances} : GetBalance(upstream)
  \/ GetSummary
  \/ \E body \in SessionBodies : StartSession(body)
  \/ \E body \in ThinkingBodies : RecordThinking(body)
  \/ \E c \in Clients : Connect(c)
  \/ \E c \in Clients : PeerStalls(c)
  \/ \E c \in Clients : PeerVanishes(c)
  \/ \E c \in Clients : StartClosing(c)
  \/ \E c \in Clients : Closed(c)
  \/ \E body \in CommandBodies : RecordCommand(body)
  \/ \E body \in UsageBodies : RecordModelUsage(body)
  \/ \E body \in ProcessBodies : RecordProcess(body)
  \/ \E q \in LimitQueries : GetRecent(q)
  \/ \E body \in StatusBodies : ReportStatus(body)
  \/ ReadStatus
  \/ \E r \in SpendRequests : SpendStart(r)
  \/ \E r \in SpendRequests : SpendUpstreamError(r)
  \/ \E r \in SpendRequests, reading \in Balances : SpendComplete(r, reading)
  \/ Tick(Instants)

Spec == Init /\ [][Next]_vars

\* ================================================================ claims

\* The rate pair the static table assigns to a model identifier: the entry of
\* that exact key, and the default entry for every other identifier.
TableRate(model) ==
  IF model \in DOMAIN costs THEN costs[model] ELSE costs["gpt-3.5-turbo"]

HasTokenCounts(r) ==
  /\ r.input_tokens # None /\ r.input_tokens[1] >= 0
  /\ r.output_tokens # None /\ r.output_tokens[1] >= 0

\* C1: every stored ModelUsage row with token counts >= 0 has total_tokens =
\* input_tokens + output_tokens and cost_usd = input_tokens * rate_in +
\* output_tokens * rate_out for the rate pair the table assigns to its model,
\* and the 'llm' envelope carries the total_tokens and cost_usd of the row
\* stored with it.
C1_UsageRowTotalsAndCost ==
  /\ \A i \in DOMAIN llm_requests :
       LET r == llm_requests[i] IN
       HasTokenCounts(r) =>
         /\ r.total_tokens = r.input_tokens[1] + r.output_tokens[1]
         /\ r.cost_usd = Some(r.input_tokens[1] * TableRate(r.model).input[1]
                              + r.output_tokens[1] * TableRate(r.model).output[1])
  /\ sent.type = "llm" =>
       /\ sent.data.total_tokens = llm_requests[Len(llm_requests)].total_tokens
       /\ sent.data.cost_usd = llm_requests[Len(llm_requests)].cost_usd

\* C2: a usage row whose model identifier is not a key of the rate table (any
\* other string, or no model) is charged what the same token counts cost at
\* the rates of the default entry 'gpt-3.5-turbo'.
C2_UnlistedModelCostsDefault ==
  \A i \in DOMAIN llm_requests :
    LET r == llm_requests[i] IN
    r.model \notin DOMAIN costs =>
      r.cost_usd = cost_usd("gpt-3.5-turbo", r.input_tokens, r.output_tokens)

NonIncreasingTimestamps(rows) ==
  \A i \in 1..(Len(rows) - 1) : rows[i].timestamp >= rows[i + 1].timestamp

\* C5: a recent-activity query with limit K (0 and negative values included)
\* returns at most K rows (none for K <= 0), in non-increasing timestamp order.
C5_RecentAtMostLimitRows ==
  (req.path = "/api/dashboard/recent" /\ res.status = 200
     /\ req.query.limit # None) =>
    /\ Len(res.rows) <= Max(req.query.limit[1], 0)
    /\ NonIncreasingTimestamps(res.rows)

IsProcessEnd(q) == q.path = "/api/process" /\ q.body.status = "end"

\* The rows a pid names; an event without pid names none.
RowsOfPid(rows, pid) ==
  {i \in DOMAIN rows : pid # Undefined /\ rows[i].pid = pid}

\* C6: after a process 'end' for pid p that the store carried out, every row
\* of pid p (so the row a preceding 'start' for p inserted) has status
\* 'completed' and an end timestamp; a process 'end' for a pid no row has
\* leaves every Process row as it was and is answered with success, unless the
\* store itself reports an error.
C6_EndedRowsCompleted ==
  (IsProcessEnd(req) /\ res.status = 200) =>
     \A i \in RowsOfPid(processes, req.body.pid) :
        processes[i].status = "completed" /\ processes[i].ended_at # None

C6_UnknownPidNoOp ==
  (IsProcessEnd(req') /\ RowsOfPid(processes, req'.body.pid) = {}) =>
     /\ processes' = processes
     /\ res' \in {[kind |-> "updated", status |-> 200], StoreError}

C6_ProcessStartThenEnd ==
  [](C6_EndedRowsCompleted) /\ [][C6_UnknownPidNoOp]_vars

\* A 'start' for pid 42 followed by an 'end' for pid 42 has left a completed
\* row, and an 'end' for pid 99, which no row has, has just succeeded.
C6_Witness ==
  /\ IsProcessEnd(req) /\ req.body.pid = "99" /\ res.status = 200
  /\ RowsOfPid(processes, "99") = {}
  /\ \E i \in DOMAIN processes :
       /\ processes[i].pid = "42"
       /\ processes[i].status = "completed"
       /\ processes[i].ended_at # None

\* The most recently started row of a pid: rows are stored in start order.
MostRecentOfPid(rows, pid) ==
  {i \in RowsOfPid(rows, pid) : \A j \in RowsOfPid(rows, pid) : j <= i}

\* C7: a process 'end' for a pid changes only the most recently started row
\* of that pid; every other row keeps its status and its end timestamp.
C7_EndChangesOnlyMostRecent ==
  [][IsProcessEnd(req') =>
       \A i \in DOMAIN processes :
          i \notin MostRecentOfPid(processes, req'.body.pid) =>
             /\ processes'[i].status = processes[i].status
             /\ processes'[i].ended_at = processes[i].ended_at]_vars

\* C4: on every status read, elapsed_ms is null if the current state is not
\* 'busy', and is now - action_start_time if the current state is 'busy'.
C4_ElapsedOnlyWhenBusy ==
  res.kind = "status_read" =>
    IF agentStatus.state = "busy"
    THEN /\ agentStatus.action_start_time # None
         /\ res.elapsed_ms = Some(now - agentStatus.action_start_time[1])
    ELSE res.elapsed_ms = None

\* A read while busy, an hour after the busy report, and the state was kept by
\* a later report that supplied no state.
C4_Witness ==
  /\ res.kind = "status_read"
  /\ agentStatus.state = "busy"
  /\ agentStatus.last_activity > agentStatus.action_start_time[1]
  /\ res.elapsed_ms = Some(2 * OneHour)

\* C3: after N balance readings appended to an empty history, the persisted
\* sequence has min(N, HistoryCap) samples and never more than HistoryCap, and
\* each append writes the previous sequence, without its oldest sample if it
\* was full, followed by the new sample {timestamp: now, balance: reading}.
C3_LengthIsMinOfAppendsAndCap ==
  /\ Len(balanceFile) = Min(nAppended, HistoryCap)
  /\ Len(balanceFile) <= HistoryCap

C3_AppendEvictsOldest ==
  nAppended' = nAppended + 1 =>
    LET sample == [timestamp |-> now,
                   balance |-> res'.analysis.current_balance]
    IN balanceFile' = IF Len(balanceFile) < HistoryCap
                      THEN Append(balanceFile, sample)
                      ELSE Append(Tail(balanceFile), sample)

TwoSamplesTwoHoursApart ==
  /\ res.kind = "spend"
  /\ Len(balanceFile) = 2
  /\ balanceFile[1].balance = 100
  /\ balanceFile[2].balance = 90
  /\ balanceFile[2].timestamp - balanceFile[1].timestamp = 2 * OneHour
  /\ balanceFile[2].timestamp = now

\* C8, as claimed: in that scenario the result omits the last_hour period.
C8_LastHourOmitted ==
  TwoSamplesTwoHoursApart => res.analysis.periods.last_hour = None

\* C8, amended: in that scenario the result contains the last_hour period,
\* taken from the first sample (which is two hours old, so at or before
\* now - 1 hour): spent 10, start balance 100.
C8_LastHourFromFirstSample ==
  TwoSamplesTwoHoursApart =>
    res.analysis.periods.last_hour =
      Some([spent |-> 10, start_balance |-> 100,
            reading_time |-> balanceFile[1].timestamp])

C8_Witness ==
  TwoSamplesTwoHoursApart /\ res.analysis.periods.last_hour # None

\* The samples of the history at or before a cutoff.
AtOrBefore(cutoff) ==
  {i \in DOMAIN balanceFile : balanceFile[i].timestamp <= cutoff}

\* A period is absent if no sample is at or before the cutoff, and otherwise
\* is taken from a sample of greatest timestamp among those.
PeriodFromMostRecent(period, cutoff, currentBalance) ==
  IF AtOrBefore(cutoff) = {} THEN period = None
  ELSE /\ period # None
       /\ \E i \in AtOrBefore(cutoff) :
            /\ \A j \in AtOrBefore(cutoff) :
                 balanceFile[j].timestamp <= balanceFile[i].timestamp
            /\ period[1].reading_time = balanceFile[i].timestamp
            /\ period[1].start_balance = balanceFile[i].balance
            /\ period[1].spent = balanceFile[i].balance - currentBalance

\* C9: for each window (1 hour, 24 hours) the analytics take the sample of
\* greatest timestamp among the samples at or before now - window and report
\* spent = its balance - current balance; with no such sample the period is
\* absent, and the response is a success either way.
C9_WindowFromMostRecentSample ==
  res.kind = "spend" =>
    /\ res.status = 200
    /\ PeriodFromMostRecent(res.analysis.periods.last_hour, now - OneHour,
                            res.analysis.current_balance)
    /\ PeriodFromMostRecent(res.analysis.periods.last_24h, now - OneDay,
                            res.analysis.current_balance)

\* Both periods are present and come from different samples, two samples are
\* old enough for the hour window, and their balances differ.
C9_Witness ==
  /\ res.kind = "spend"
  /\ res.analysis.periods.last_hour # None
  /\ res.analysis.periods.last_24h # None
  /\ res.analysis.periods.last_hour[1].reading_time
       > res.analysis.periods.last_24h[1].reading_time
  /\ res.analysis.periods.last_hour[1].spent
       # res.analysis.periods.last_24h[1].spent
  /\ Cardinality(AtOrBefore(now - OneHour)) = 2

\* total_tracked is present exactly when the history holds at least 2 samples,
\* and then spent = balance of the oldest retained sample - current balance.
TotalTrackedSpent ==
  /\ (res.analysis.total_tracked # None) <=> (Len(balanceFile) >= 2)
  /\ res.analysis.total_tracked # None =>
       res.analysis.total_tracked[1].spent
         = balanceFile[1].balance - res.analysis.current_balance

\* C10, as claimed: ... and hourly_rate = spent / hours since the oldest
\* retained sample when that is > 0, and 0 otherwise.  (hourly_rate is held in
\* 1/100 units.)
C10_HourlyRateExact ==
  res.kind = "spend" =>
    /\ TotalTrackedSpent
    /\ res.analysis.total_tracked # None =>
         LET tt == res.analysis.total_tracked[1]
             elapsed == now - balanceFile[1].timestamp
         IN IF elapsed > 0
            THEN tt.hourly_rate * elapsed = 100 * tt.spent * OneHour
            ELSE tt.hourly_rate = 0

\* C10, amended: ... and hourly_rate = spent / hours rounded to 2 decimal
\* places (the nearest 1/100, a half rounding up) when hours > 0, and 0
\* otherwise; 5.00 per hour for balances 100 then 90 two hours apart.
C10_HourlyRateRounded ==
  res.kind = "spend" =>
    /\ TotalTrackedSpent
    /\ res.analysis.total_tracked # None =>
         LET tt == res.analysis.total_tracked[1]
             elapsed == now - balanceFile[1].timestamp
         IN IF elapsed > 0
            THEN /\ (2 * tt.hourly_rate - 1) * elapsed <= 200 * tt.spent * OneHour
                 /\ 200 * tt.spent * OneHour < (2 * tt.hourly_rate + 1) * elapsed
            ELSE tt.hourly_rate = 0
    /\ TwoSamplesTwoHoursApart => res.analysis.total_tracked[1].hourly_rate = 500

\* A rate that is not a whole number of 1/100: 10 spent over 24 hours, 0.42.
C10_Witness ==
  /\ res.kind = "spend"
  /\ res.analysis.total_tracked # None
  /\ res.analysis.total_tracked[1].spent = 10
  /\ now - balanceFile[1].timestamp = OneDay
  /\ res.analysis.total_tracked[1].hourly_rate = 42

\* ------------------------------------------------------------ C11 -------

\* No envelope reaches any subscriber.
NothingDelivered(d) == \A c \in Clients : d[c] = << >>

\* This step handles a session start whose id is the id of a stored session.
DuplicateSessionStart ==
  /\ req'.path = "/api/session/start"
  /\ req'.body.id # Undefined
  /\ \E i \in DOMAIN sessions : sessions[i].id = req'.body.id

\* C11: a session start whose identifier is already the id of a row of the
\* sessions table is answered with an error, leaves the table (the existing
\* row included) as it was, and broadcasts no envelope.
C11_DuplicateSessionRejected ==
  [][DuplicateSessionStart =>
       /\ res'.kind = "error"
       /\ res'.status = 500
       /\ sessions' = sessions
       /\ sent' = NoEnvelope
       /\ NothingDelivered(delivered')]_vars

\* A start for a stored id, reported by another agent, has just been refused
\* on the primary key while a subscriber was listening.
C11_Witness ==
  /\ req.path = "/api/session/start"
  /\ res = ConstraintError
  /\ sent = NoEnvelope
  /\ clients["dashboard"].readyState = "OPEN"
  /\ \E i \in DOMAIN sessions :
       /\ sessions[i].id = req.body.id
       /\ sessions[i].agent_id # req.body.agent_id

\* ------------------------------------------------------------ C12 -------

\* The envelope type of each kind of ingestion event.
EnvelopeTypeOf(q) ==
  CASE q.path = "/api/session/start" -> "session_start"
    [] q.path = "/api/command" -> "command"
    [] q.path = "/api/llm" -> "llm"
    [] q.path = "/api/process" ->
         IF q.body.status = "start" THEN "process_start" ELSE "process_end"
    [] q.path = "/api/thinking" -> "thinking"
    [] q.path = "/api/agent/status" -> "status"

\* The step just taken handled an ingestion request.
IsIngestion(q) ==
  /\ q.path \in {"/api/session/start", "/api/command", "/api/llm",
                 "/api/process", "/api/thinking", "/api/agent/status"}
  /\ q.method = "POST"

\* The step just taken handled an ingestion request and carried out its
\* mutation: it answered, and not with an error.
IngestionCompleted == IsIngestion(req) /\ res.kind \notin {"none", "error"}

\* C12: an ingestion request that completes its mutation broadcasts the one
\* envelope of its event kind, and every open subscriber is passed that
\* envelope exactly once.
C12_OneEnvelopePerMutation ==
  IngestionCompleted =>
    /\ sent.type = EnvelopeTypeOf(req)
    /\ \A c \in Clients :
         clients[c].readyState = "OPEN" => delivered[c] = <<sent>>

\* A process end has just been carried out with a subscriber listening.
C12_Witness ==
  /\ IngestionCompleted
  /\ req.path = "/api/process"
  /\ req.body.status = "end"
  /\ sent.type = "process_end"
  /\ delivered["dashboard"] = <<sent>>

\* ------------------------------------------------------------ C13 -------

\* An ingestion request whose handler writes to the store.
IsStoreBacked(q) == IsIngestion(q) /\ q.path # "/api/agent/status"

\* This step carried out the store write of the request it handled.
WriteSucceeded ==
  CASE req'.path = "/api/session/start" ->
         sessions' = Append(sessions, sessions'[Len(sessions')])
    [] req'.path = "/api/command" ->
         commands' = Append(commands, commands'[Len(commands')])
    [] req'.path = "/api/llm" ->
         llm_requests' = Append(llm_requests, llm_requests'[Len(llm_requests')])
    [] req'.path = "/api/thinking" ->
         events' = Append(events, events'[Len(events')])
    [] req'.path = "/api/process" ->
         IF req'.body.status = "start"
         THEN processes' = Append(processes, processes'[Len(processes')])
         ELSE processes' = EndProcesses(processes, req'.body.pid, now)

\* C13: a store-backed ingestion request broadcasts its envelope only in a
\* step that carried out its store write and answered with success; when the
\* store reports an error the caller is answered 500 and nothing is broadcast.
C13_BroadcastOnlyAfterWrite ==
  [][IsStoreBacked(req') =>
       /\ sent' # NoEnvelope =>
            /\ res'.kind \notin {"none", "error"}
            /\ res'.status = 200
            /\ WriteSucceeded
       /\ res'.kind = "error" =>
            /\ res'.status = 500
            /\ sent' = NoEnvelope
            /\ NothingDelivered(delivered')]_vars

\* The store has just refused a thinking event while a subscriber listened.
C13_Witness ==
  /\ req.path = "/api/thinking"
  /\ res = StoreError
  /\ events = << >>
  /\ sent = NoEnvelope
  /\ clients["dashboard"].readyState = "OPEN"

\* ------------------------------------------------------------ C14 -------

\* C14: a broadcast passes its envelope exactly once to each subscriber whose
\* connection is open when it runs and to no other; a step that broadcasts
\* nothing passes nothing, so a subscriber is never handed an envelope that
\* was broadcast before it connected or while it was not open.
C14_DeliveredToOpenSubscribersOnly ==
  [][\A c \in Clients :
       /\ delivered'[c] =
            IF sent' # NoEnvelope /\ clients[c].readyState = "OPEN"
            THEN <<sent'>> ELSE << >>
       /\ clients[c].readyState # "OPEN" /\ clients'[c].readyState = "OPEN"
            => delivered'[c] = << >>]_vars

\* An envelope has just gone to the open subscriber and not to the one that
\* is still in wss.clients but closing.
C14_Witness ==
  /\ sent # NoEnvelope
  /\ clients["dashboard"].readyState = "OPEN"
  /\ delivered["dashboard"] = <<sent>>
  /\ clients["viewer"] = Closing
  /\ delivered["viewer"] = << >>

\* ------------------------------------------------------------ C15 -------

\* The send to c in the step just taken blocked or failed.
SendFailedOrBlocked(c) ==
  /\ delivered[c] # << >>
  /\ clients[c].socket \in {"blocked", "broken"}

\* C15: a subscriber whose send blocked or failed during a broadcast is out of
\* the active set afterwards, so the next step passes it no envelope; the
\* other open subscribers are passed the envelope of every broadcast.
C15_FailedSubscriberDropped ==
  [][\A c \in Clients :
       /\ SendFailedOrBlocked(c) => delivered'[c] = << >>
       /\ (sent' # NoEnvelope /\ clients[c] = Open("ok"))
            => delivered'[c] = <<sent'>>]_vars

\* ------------------------------------------------------------ C16 -------

\* The step just taken broadcast an envelope and the send to some subscriber
\* failed: its peer was gone.
SendFailed ==
  /\ sent # NoEnvelope
  /\ \E c \in Clients : delivered[c] # << >> /\ clients[c].socket = "broken"

\* C16: when a send fails during the broadcast of an ingestion request, the
\* caller is still answered with success, and a command's answer carries the
\* id of the row just inserted.
C16_FanoutFailureNotSurfaced ==
  (IsIngestion(req) /\ SendFailed) =>
    /\ res.kind \notin {"none", "error"}
    /\ res.status = 200
    /\ req.path = "/api/command" =>
         res = [kind |-> "inserted", status |-> 200, id |-> Len(commands)]

\* A command has just been stored and answered while the send to one
\* subscriber failed and the other subscriber received the envelope.
C16_Witness ==
  /\ req.path = "/api/command"
  /\ SendFailed
  /\ res.status = 200
  /\ clients["dashboard"] = Open("broken")
  /\ clients["viewer"] = Open("ok")
  /\ delivered["viewer"] = <<sent>>

\* ------------------------------------------------------------ C17 -------

\* This step handles a status report.
IsStatusReport(q) == q.path = "/api/agent/status" /\ q.method = "POST"

\* C17: a status report keeps the previous value of each of state,
\* current_action and session_id that its body does not supply; it sets
\* action_start_time to the current time exactly when the reported state is
\* 'busy' and leaves it as it was otherwise; it sets last_activity to the
\* current time.
C17_StatusReportMerge ==
  [][IsStatusReport(req') =>
       /\ req'.body.state = Undefined =>
            agentStatus'.state = agentStatus.state
       /\ req'.body.current_action = Undefined =>
            agentStatus'.current_action = agentStatus.current_action
       /\ req'.body.session_id = Undefined =>
            agentStatus'.session_id = agentStatus.session_id
       /\ agentStatus'.action_start_time =
            IF req'.body.state = "busy" THEN Some(now')
            ELSE agentStatus.action_start_time
       /\ agentStatus'.last_activity = now']_vars

\* A report of 'idle' without action or session has just been merged into a
\* record that was busy earlier: the earlier start time, action and session
\* are still there.
C17_Witness ==
  /\ IsStatusReport(req)
  /\ req.body = [state |-> "idle", current_action |-> Undefined,
                 session_id |-> Undefined]
  /\ agentStatus.state = "idle"
  /\ agentStatus.current_action = "web_search"
  /\ agentStatus.session_id = "s1"
  /\ agentStatus.action_start_time # None
  /\ agentStatus.action_start_time # Some(now)
  /\ agentStatus.last_activity = now

\* ------------------------------------------------------------ C18 -------

\* C18: in every reachable state the state of the agent status record is one
\* of idle, thinking, busy and error.
C18_StateInEnumeration ==
  agentStatus.state \in {"idle", "thinking", "busy", "error"}

\* ------------------------------------------------------------ C19 -------

\* The body lacks a field its handler needs: a session start without id, a
\* command without tool_name, usage without token counts, a process event
\* whose status is neither 'start' nor 'end'.
LacksRequiredField(q) ==
  CASE q.path = "/api/session/start" -> q.body.id = Undefined
    [] q.path = "/api/command" -> q.body.tool_name = Undefined
    [] q.path = "/api/llm" ->
         q.body.input_tokens = None /\ q.body.output_tokens = None
    [] q.path = "/api/process" -> q.body.status \notin {"start", "end"}
    [] OTHER -> FALSE

\* C19: a write request that lacks a required field is answered with a client
\* error (a 4xx status), writes no row and broadcasts no envelope.
C19_InvalidBodyRejected ==
  [][(IsIngestion(req') /\ LacksRequiredField(req')) =>
       /\ res'.kind = "error"
       /\ res'.status \in 400..499
       /\ sent' = NoEnvelope
       /\ UNCHANGED <<sessions, commands, llm_requests, processes, events>>]_vars

\* ------------------------------------------------------------ C20 -------

\* This step handles a command, usage, process or thinking event that the
\* handler acts on and whose session_id is the id of no sessions row.
OrphanIngestion ==
  /\ IsIngestion(req')
  /\ req'.path \in {"/api/command", "/api/llm", "/api/process", "/api/thinking"}
  /\ req'.path = "/api/process" => req'.body.status \in {"start", "end"}
  /\ req'.body.session_id # Undefined
  /\ \A i \in DOMAIN sessions : sessions[i].id # req'.body.session_id

\* The table gained one row, and that row carries the session_id.
Stored(old, new, session_id) ==
  /\ Len(new) = Len(old) + 1
  /\ SubSeq(new, 1, Len(old)) = old
  /\ new[Len(new)].session_id = session_id

\* This step wrote what the request asks for, under the request's session_id.
StoredUnderSession ==
  CASE req'.path = "/api/command" ->
         Stored(commands, commands', req'.body.session_id)
    [] req'.path = "/api/llm" ->
         Stored(llm_requests, llm_requests', req'.body.session_id)
    [] req'.path = "/api/thinking" ->
         Stored(events, events', req'.body.session_id)
    [] req'.path = "/api/process" ->
         IF req'.body.status = "start"
         THEN Stored(processes, processes', req'.body.session_id)
         ELSE processes' = EndProcesses(processes, req'.body.pid, now)

\* C20: an event whose session_id matches no sessions row is not refused for
\* that: the store raises no constraint error, and unless the store itself
\* fails the event is answered with success, stored under that session_id and
\* broadcast in the envelope of its kind.
C20_OrphanReferenceAccepted ==
  [][OrphanIngestion =>
       /\ res' # ConstraintError
       /\ res' # StoreError =>
            /\ res'.status = 200
            /\ StoredUnderSession
            /\ sent'.type = EnvelopeTypeOf(req')
            /\ sent'.data.session_id = req'.body.session_id]_vars

\* A thinking event for a session that was never started has just been
\* stored and broadcast, while another session exists.
C20_Witness ==
  /\ req.path = "/api/thinking"
  /\ req.body.session_id = "s9"
  /\ res.kind = "inserted"
  /\ events[Len(events)].session_id = "s9"
  /\ sent.type = "thinking"
  /\ sessions # << >>
  /\ \A i \in DOMAIN sessions : sessions[i].id # "s9"

\* ------------------------------------------------------------ C21 -------

\* The rows of a table whose session started within the window.
OfSessionInWindow(table) ==
  {j \in DOMAIN table :
     \E i \in DOMAIN sessions :
       /\ StartedInWindow(sessions[i])
       /\ sessions[i].id # Undefined
       /\ table[j].session_id = sessions[i].id}

\* The sum of a column over the usage rows K, each row once; nothing counts 0.
RECURSIVE SumOnce(_, _)
SumOnce(K, column) ==
  IF K = {} THEN 0
  ELSE LET k == CHOOSE x \in K : TRUE
       IN OrZero(llm_requests[k][column]) + SumOnce(K \ {k}, column)

\* The step just taken answered the summary query.
SummaryAnswered == req.path = "/api/dashboard/summary" /\ res.kind = "summary"

\* C21: the summary's total_commands is the number of command rows whose
\* session started within the window, and its token and cost totals are the
\* sums over the usage rows whose session started within the window, every
\* row counted once.
C21_SummaryCountsEachRowOnce ==
  SummaryAnswered =>
    /\ res.row.total_commands = Cardinality(OfSessionInWindow(commands))
    /\ OrZero(res.row.total_input_tokens) =
         SumOnce(OfSessionInWindow(llm_requests), "input_tokens")
    /\ OrZero(res.row.total_output_tokens) =
         SumOnce(OfSessionInWindow(llm_requests), "output_tokens")
    /\ OrZero(res.row.total_cost) =
         SumOnce(OfSessionInWindow(llm_requests), "cost_usd")

\* ------------------------------------------------------------ C22 -------

\* C22: the summary's active_sessions is the number of distinct session
\* identifiers with status 'active', whenever those sessions started.
C22_ActiveSessionsUnbounded ==
  SummaryAnswered =>
    res.row.active_sessions =
      Cardinality({sessions[i].id :
                     i \in {n \in DOMAIN sessions :
                              sessions[n].status = "active"}}
                  \ {Undefined})

\* ------------------------------------------------------------ C23 -------

\* Every row of old is a row of new, at its place and with its values.
RowsKept(old, new) ==
  /\ Len(old) <= Len(new)
  /\ SubSeq(new, 1, Len(old)) = old

\* C23: no step changes or removes a row of sessions, commands, llm_requests
\* or events once it is inserted; so every session is 'active' with no end
\* time.
C23_InsertedRowsImmutable ==
  /\ [](\A i \in DOMAIN sessions :
          sessions[i].status = "active" /\ sessions[i].ended_at = None)
  /\ [][/\ RowsKept(sessions, sessions')
        /\ RowsKept(commands, commands')
        /\ RowsKept(llm_requests, llm_requests')
        /\ RowsKept(events, events')]_vars

\* A process of session s1 has just been ended, and the session's row still
\* reads active with no end time.
C23_Witness ==
  /\ req.path = "/api/process"
  /\ req.body.status = "end"
  /\ res.kind = "updated"
  /\ \E j \in DOMAIN processes :
       processes[j].session_id = "s1" /\ processes[j].status = "completed"
  /\ \E i \in DOMAIN sessions :
       /\ sessions[i].id = "s1"
       /\ sessions[i].status = "active"
       /\ sessions[i].ended_at = None

\* ------------------------------------------------------------ C24 -------

\* C24: once the handler of an ingestion request and the store callback it
\* set up have run, the request has been answered, with success or with an
\* error.
C24_EveryIngestionAnswered ==
  IsIngestion(req) => res.kind # "none"

\* ------------------------------------------------------------ C25 -------

\* This step handles a request to one of the two endpoints that fetch the
\* balance, and the collaborator returned a reading.
FreshReading ==
  /\ req'.path \in {"/api/moonshot/balance", "/api/moonshot/spend"}
  /\ "upstream" \in DOMAIN req'
  /\ req'.upstream # None

\* C25: whenever the collaborator returns a reading, on either endpoint, the
\* persisted history becomes the previous one with the sample {now, reading}
\* appended (and cut to the capacity).
C25_EveryReadingAppended ==
  [][FreshReading =>
       balanceFile' =
         KeepLast(Append(balanceFile,
                         [timestamp |-> now', balance |-> req'.upstream[1]]),
                  HistoryCap)]_vars

\* ------------------------------------------------------------ C26 -------

\* Both triggers have finished and the persisted history holds fewer samples
\* than were appended and the capacity allows: an append was overwritten.
LostUpdate ==
  /\ \A r \in SpendRequests : spendPc[r] = "idle"
  /\ nAppended >= 2
  /\ Len(balanceFile) < Min(nAppended, HistoryCap)

CompletesDuringAnother(r) ==
  /\ spendPc[r] = "fetching"
  /\ spendPc'[r] = "idle"
  /\ req'.upstream # None
  /\ \E other \in SpendRequests \ {r} : spendPc[other] = "fetching"

UpstreamFailure ==
  /\ req'.path \in {"/api/moonshot/balance", "/api/moonshot/spend"}
  /\ "upstream" \in DOMAIN req'
  /\ req'.upstream = None

\* C27: when the balance collaborator fails, the endpoint answers with a
\* server error, broadcasts nothing, and leaves the balance history, the
\* tables, the agent status and the subscribers as they were.
C27_UpstreamFailureIsolated ==
  [][UpstreamFailure =>
       /\ res'.status = 500
       /\ sent' = NoEnvelope
       /\ NothingDelivered(delivered')
       /\ UNCHANGED <<balanceFile, nAppended, sessions, commands, llm_requests,
                      processes, events, agentStatus, clients>>]_vars

\* A spend request has just failed upstream with samples in the history, a
\* command stored, the agent busy and a subscriber listening.
C27_Witness ==
  /\ req.path = "/api/moonshot/spend"
  /\ "upstream" \in DOMAIN req
  /\ req.upstream = None
  /\ res.status = 500
  /\ balanceFile # << >>
  /\ commands # << >>
  /\ agentStatus.state = "busy"
  /\ clients["dashboard"].readyState = "OPEN"

\* ------------------------------------------------------------ C28 -------

\* A request to one of the query handlers: summary, recent activity, cost
\* breakdown, reasoning log, status read.
IsQuery(q) ==
  /\ q.path \in {"/api/dashboard/summary", "/api/dashboard/recent",
                 "/api/dashboard/costs", "/api/thinking", "/api/agent/status"}
  /\ q.method = "GET"

\* C28: a step that handles a query changes no row of any table, does not
\* change the agent status, and broadcasts no envelope.
C28_QueriesReadOnly ==
  [][IsQuery(req') =>
       /\ UNCHANGED <<sessions, commands, llm_requests, processes, events>>
       /\ UNCHANGED agentStatus
       /\ sent' = NoEnvelope
       /\ NothingDelivered(delivered')]_vars

\* The reasoning log has just been read, a day after a thought was stored,
\* with the agent busy and a subscriber listening.
C28_Witness ==
  /\ IsQuery(req)
  /\ req.path = "/api/thinking"
  /\ res.kind = "thoughts"
  /\ Len(res.rows) = 1
  /\ res.rows[1].data.thought = "plan"
  /\ now > res.rows[1].timestamp
  /\ agentStatus.state = "busy"
  /\ agentStatus.last_activity < now
  /\ clients["dashboard"].readyState = "OPEN"

\* ------------------------------------------------------------ C29 -------

\* C29: whenever the agent status record says 'busy' it holds a start time.
C29_BusyHasStartTime ==
  agentStatus.state = "busy" => agentStatus.action_start_time # None

\* The record is busy through a report that named no action, and a later
\* report without a state has left it busy with the start time of the first.
C29_Witness ==
  /\ IsStatusReport(req)
  /\ req.body.state = Undefined
  /\ agentStatus.state = "busy"
  /\ agentStatus.current_action = Undefined
  /\ agentStatus.action_start_time # None
  /\ agentStatus.action_start_time # Some(now)

\* ------------------------------------------------------------ C30 -------

\* A label that is set: neither absent nor empty.
IsLabel(x) == x \notin {Undefined, ""}

\* C30: once current_action holds a label no status report clears it: a
\* report keeps a label in the record, and a report that omits current_action
\* or sends it empty keeps the very label that was there.
C30_ActionLabelNeverCleared ==
  [][(IsStatusReport(req') /\ IsLabel(agentStatus.current_action)) =>
       /\ IsLabel(agentStatus'.current_action)
       /\ ~IsLabel(req'.body.current_action) =>
            agentStatus'.current_action = agentStatus.current_action]_vars

\* The status has just been read after the hook's return to idle, which sends
\* an empty action: the record is idle and still names the last action.
C30_Witness ==
  /\ req.path = "/api/agent/status"
  /\ req.method = "GET"
  /\ res.agent.state = "idle"
  /\ res.agent.current_action = "web_search"
  /\ res.agent.action_start_time # None

\* ------------------------------------------------------------ C31 -------

\* The persisted samples are in order of non-decreasing timestamp.
SortedByTimestamp ==
  \A i, j \in DOMAIN balanceFile :
    i <= j => balanceFile[i].timestamp <= balanceFile[j].timestamp

\* The last sample in sequence order at or before the cutoff is one of
\* greatest timestamp among the samples at or before the cutoff, and no
\* sample at or before the cutoff comes after one that is past it.
LastIsMostRecent(cutoff) ==
  \A i \in AtOrBefore(cutoff) :
    (\A j \in AtOrBefore(cutoff) : j <= i) =>
      /\ \A j \in AtOrBefore(cutoff) :
           balanceFile[j].timestamp <= balanceFile[i].timestamp
      /\ AtOrBefore(cutoff) = 1..i

\* C31: with a clock that never goes back and spend requests interleaved in
\* any way, the persisted balance history is ordered by non-decreasing
\* timestamp, so for the cutoff of either window the last sample at or before
\* it is the most recent such sample.
C31_HistorySortedByTimestamp ==
  /\ SortedByTimestamp
  /\ LastIsMostRecent(now - OneHour)
  /\ LastIsMostRecent(now - OneDay)

\* Two requests were in flight together and both have appended, after an
\* earlier sample; the history holds samples of three different times, two
\* of them at or before the one-hour cutoff and one past it, and the
\* last_hour period was just taken from the second.
C31_Witness ==
  /\ res.kind = "spend"
  /\ Len(balanceFile) = 3
  /\ balanceFile[1].timestamp < balanceFile[2].timestamp
  /\ balanceFile[2].timestamp < balanceFile[3].timestamp
  /\ AtOrBefore(now - OneHour) = {1, 2}
  /\ res.analysis.periods.last_hour # None
  /\ res.analysis.periods.last_hour[1].reading_time = balanceFile[2].timestamp
  /\ \E r \in SpendRequests : spendPc[r] = "fetching"

====
